---- MODULE Spec2Model ----
(***************************************************************************)
(* ServiceWorkerManager (client/src/lib/serviceWorkerManager.ts): the      *)
(* registration of the background worker and the adaptive health-check     *)
(* poller, as a state machine.  One action per event-loop turn: a public   *)
(* call, a browser event, a timer fire, or the settlement of a fetch.      *)
(* A turn runs its handler to the end and then the microtasks it left      *)
(* behind (the catch/finally of a fetch that the handler aborted).         *)
(*                                                                         *)
(* The inline patch script (enhancedServiceWorkerInit) is a second machine *)
(* over its own variables, under PatchSpec.                                *)
(***************************************************************************)
EXTENDS Integers, Sequences, FiniteSets, TLC

VARIABLES
    cfgIn,            \* the ServiceWorkerConfig handed to the constructor
    config,           \* this.config (Required<ServiceWorkerConfig>)
    retryCount,       \* this.retryState.retryCount
    nextInterval,     \* this.retryState.nextInterval
    isOffline,        \* this.retryState.isOffline
    abortController,  \* this.abortController: 0 (null) or the probe it controls
    pollTimer,        \* this.pollTimer: 0 (null) or a timer id (live or stale)
    isBackgrounded,   \* this.isBackgrounded
    timers,           \* pending window.setTimeout poll timers: [id, delay]
    probes,           \* ids of the fetches in flight
    regPc,            \* position of register()
    docHidden,        \* document.hidden
    saveData,         \* navigator.connection.saveData
    onLine,           \* navigator.onLine
    batteryLow,       \* battery.level < 0.15
    swSupported,      \* 'serviceWorker' in navigator
    telemetry,        \* this.telemetry: the counts of the registration events
    stopped,          \* ghost: stopPolling() was called and since then neither
                      \*        startPolling() nor resumePolling()
    pre,              \* ghost: the probe outcome handled in the last turn
    lastUnj,          \* ghost: the exponentialDelay of the last probe outcome, if
                      \*        it was a transport failure, else 0
    \* the inline patch script
    patchRetryCount,  \* retryCount
    pingTimer,        \* pingTimer: 0 (null) or a timer id (live or stale)
    pingAbort,        \* abortController: 0 (null) or the ping it controls
    currentInterval,  \* currentInterval
    patchBackgrounded,\* isBackgrounded
    patchOffline,     \* isOffline
    pingTimers,       \* ids of the pending setTimeout(poll, ...) timers
    pings,            \* ids of the pings in flight
    patchPc,          \* position of initServiceWorker
    patchHidden,      \* document.hidden
    patchOnLine,      \* navigator.onLine
    patchStopped,     \* ghost: __cleanupServiceWorker() ran, no startPolling since
    patchPre,         \* ghost: the ping outcome handled in the last turn
    \* initializeTraceViewer
    protocol,         \* window.location.protocol
    initPc,           \* position of initializeTraceViewer: "none" (not called),
                      \* "awaiting" (swManager.register()), or how it ended
    failedEvents      \* the sw-registration-failed events dispatched

\* the variables of the class-based manager
mvars == <<cfgIn, config, retryCount, nextInterval, isOffline, abortController,
           pollTimer, isBackgrounded, timers, probes, regPc, docHidden, saveData,
           onLine, batteryLow, swSupported, telemetry, stopped, pre, lastUnj>>

\* the variables of the inline patch script
pvars == <<patchRetryCount, pingTimer, pingAbort, currentInterval,
           patchBackgrounded, patchOffline, pingTimers, pings, patchPc,
           patchHidden, patchOnLine, patchStopped, patchPre>>

\* what the page and the constructor fix for good
fixed == <<cfgIn, config, swSupported>>

\* the variables of initializeTraceViewer
ivars == <<protocol, initPc, failedEvents>>

vars == <<mvars, pvars, ivars>>

----------------------------------------------------------------------------
(* Bounds of the model *)

\* retryCount is incremented without limit by failing probes; failures are
\* explored while retryCount is below this bound.
MaxRetryCount == 5

\* The number of poll timers (and of fetches) the model can hold at once.
MaxPending == 2

\* A negative Retry-After makes the interval negative, and 4xx responses and
\* signals multiply it further; intervals are explored down to this many
\* milliseconds below zero.
MaxNegative == 1000

\* Registration attempts can fail without limit once poll outcomes reset
\* retryCount; with telemetry enabled they are explored up to this many
\* recorded failures.
MaxFailed == 4

----------------------------------------------------------------------------
(* Arithmetic *)

Min(a, b) == IF a <= b THEN a ELSE b

RECURSIVE Pow2(_)
\* Math.pow(2, n) for a natural n
Pow2(n) == IF n = 0 THEN 1 ELSE 2 * Pow2(n - 1)

\* Math.round(num / den) for den > 0: the nearest integer, halves upwards
MathRound(num, den) == (2 * num + den) \div (2 * den)

\* The values Math.random() is drawn from, as <<numerator, denominator>>:
\* 0 and 7/8 (U lies in [0, 1)).
RandomDraws == { <<0, 8>>, <<7, 8>> }

\* the draw of a turn that does not call Math.random()
NoDraw == { <<0, 8>> }

----------------------------------------------------------------------------
(* parseInt *)

Digits == <<"0", "1", "2", "3", "4", "5", "6", "7", "8", "9">>

IsDigit(c) == \E i \in 1..10 : Digits[i] = c

DigitVal(c) == (CHOOSE i \in 1..10 : Digits[i] = c) - 1

RECURSIVE SkipSpaces(_)
SkipSpaces(s) == IF s # <<>> /\ Head(s) = " " THEN SkipSpaces(Tail(s)) ELSE s

RECURSIVE DigitPrefix(_, _)
\* the value of the longest prefix of digits of s, continuing from acc
DigitPrefix(s, acc) ==
    IF s # <<>> /\ IsDigit(Head(s))
    THEN DigitPrefix(Tail(s), 10 * acc + DigitVal(Head(s)))
    ELSE acc

NaN == [nan |-> TRUE, val |-> 0]
Num(n) == [nan |-> FALSE, val |-> n]

\* parseInt(str): leading white space is skipped, one sign is read, then the
\* longest prefix of decimal digits; NaN when there is no digit.
ParseInt(str) ==
    LET t    == SkipSpaces(str)
        neg  == t # <<>> /\ Head(t) = "-"
        body == IF t # <<>> /\ Head(t) \in {"-", "+"} THEN Tail(t) ELSE t
    IN  IF body = <<>> \/ ~IsDigit(Head(body))
        THEN NaN
        ELSE Num(IF neg THEN 0 - DigitPrefix(body, 0) ELSE DigitPrefix(body, 0))

\* parseInt(x) * 1000
Times1000(v) == IF v.nan THEN NaN ELSE Num(v.val * 1000)

----------------------------------------------------------------------------
(* Inputs *)

\* A Retry-After header of a response: absent, or present with a value.
NoHeader == [present |-> FALSE, value |-> <<>>]
Header(str) == [present |-> TRUE, value |-> str]

RetryAfterHeaders ==
    { NoHeader,
      Header(<<>>),
      Header(<<"0">>),
      Header(<<"6", "0">>),
      Header(<<"9", "9", "9">>),
      Header(<<"-", "1">>),
      Header(<<"s", "o", "o", "n">>) }

\* one status of each class performPoll tells apart; a 300 passes every branch
Statuses == {200, 300, 404, 503}

\* ServiceWorkerConfig objects; 0 and "" stand for an omitted (falsy) field.
\* The first leaves every optional field out, the second is the config
\* initializeTraceViewer builds when enablePolling is not set.
ConfigInputs ==
    { [pingEndpoint |-> "", maxRetries |-> 0, baseInterval |-> 0, maxInterval |-> 0,
       enableTelemetry |-> FALSE],
      [pingEndpoint |-> "", maxRetries |-> 3, baseInterval |-> 60000,
       maxInterval |-> 600000, enableTelemetry |-> FALSE] }

\* a || b for a string a ("" is falsy, as undefined is)
OrElseStr(a, b) == IF a = "" THEN b ELSE a

\* a || b for a number a (0 is falsy, as undefined is)
OrElseNum(a, b) == IF a = 0 THEN b ELSE a

----------------------------------------------------------------------------
(* The manager's state as one value, so that the methods compose *)

\* ghost: no probe outcome was handled
NoOutcome == [kind |-> "none", rc |-> 0, unj |-> 0, header |-> NoHeader]

Cur ==
    [ retryCount |-> retryCount, nextInterval |-> nextInterval,
      isOffline |-> isOffline, abortController |-> abortController,
      pollTimer |-> pollTimer, isBackgrounded |-> isBackgrounded,
      timers |-> timers, probes |-> probes, telemetry |-> telemetry,
      aborted |-> {},          \* fetches aborted in this turn, not yet settled
      settled |-> NoOutcome,   \* ghost: the probe outcome handled in this turn
      lastUnj |-> lastUnj ]

\* the smallest positive id not in use
FreshId(used) ==
    CHOOSE i \in 1..(Cardinality(used) + 1) :
        i \notin used /\ \A j \in 1..(i - 1) : j \in used

TimerIds(s) == { t.id : t \in s.timers }

\* constructor: this.config
MakeConfig(in) ==
    [ pingEndpoint |-> OrElseStr(in.pingEndpoint, "/ping"),
      maxRetries   |-> OrElseNum(in.maxRetries, 5),
      baseInterval |-> OrElseNum(in.baseInterval, 30000),
      maxInterval  |-> OrElseNum(in.maxInterval, 300000),
      enableTelemetry |-> in.enableTelemetry ]

\* this.telemetry before any event; of the events logTelemetry counts only
\* those of register() are kept
NoTelemetry ==
    [ registration_success |-> 0, registration_failed |-> 0,
      registration_unsupported |-> 0 ]

logTelemetry(s, event) ==
    IF ~config.enableTelemetry THEN s
    ELSE [s EXCEPT !.telemetry[event] = @ + 1]

\* mutant of ExponentialDelay: linear in retryCount
ExponentialDelay_Linear(rc) ==
    Min(config.baseInterval * 2 * rc, config.maxInterval)

\* the exponentialDelay of calculateBackoffDelay
ExponentialDelay(rc) ==
    Min(config.baseInterval * Pow2(rc), config.maxInterval)

\* mutant of calculateBackoffDelay: the jitter is twice as wide
calculateBackoffDelay_WideJitter(rc, u) ==
    MathRound(ExponentialDelay(rc) * (3 * u[2] + 2 * u[1]), 4 * u[2])

\* calculateBackoffDelay with Math.random() = u[1] / u[2]:
\*   Math.round(e + e * 0.25 * (U - 0.5))  =  Math.round(e * (7d + 2n) / 8d)
calculateBackoffDelay(rc, u) ==
    MathRound(ExponentialDelay(rc) * (7 * u[2] + 2 * u[1]), 8 * u[2])

\* mutant of calculatePollInterval: the background factor is not capped
calculatePollInterval_NoCap(s) ==
    LET i0 == s.nextInterval
        i1 == IF s.isBackgrounded THEN i0 * 4 ELSE i0
    IN  IF saveData THEN i1 * 2 ELSE i1

calculatePollInterval(s) ==
    LET i0 == s.nextInterval
        i1 == IF s.isBackgrounded THEN Min(i0 * 4, config.maxInterval) ELSE i0
        i2 == IF saveData THEN Min(i1 * 2, config.maxInterval) ELSE i1
    IN  i2

schedulePoll(s) ==
    LET id == FreshId(TimerIds(s))
    IN  [s EXCEPT !.timers = @ \cup {[id |-> id, delay |-> calculatePollInterval(s)]},
                  !.pollTimer = id]

\* mutant of startPolling: the "already polling" check is missing
startPolling_NoGuard(s) == schedulePoll(s)

startPolling(s) ==
    IF s.pollTimer # 0 THEN s ELSE schedulePoll(s)

\* clearTimeout(this.pollTimer) clears the timer with that id, if it is pending;
\* abort() rejects the fetch the controller belongs to.
stopPolling(s) ==
    LET s1 == IF s.pollTimer # 0
              THEN [s EXCEPT !.timers = { t \in @ : t.id # s.pollTimer },
                             !.pollTimer = 0]
              ELSE s
    IN  IF s1.abortController # 0
        THEN [s1 EXCEPT !.aborted = @ \cup ({s1.abortController} \cap s1.probes),
                        !.abortController = 0]
        ELSE s1

resumePolling(s) ==
    IF config.pingEndpoint # "" /\ s.pollTimer = 0
    THEN startPolling([s EXCEPT !.nextInterval = config.baseInterval])
    ELSE s

adjustPollingForBackground(s) ==
    [s EXCEPT !.nextInterval = Min(@ * 4, config.maxInterval)]

adjustPollingForLowBattery(s) ==
    [s EXCEPT !.nextInterval = Min(@ * 2, config.maxInterval)]

\* reads the config it is given: the constructor runs it before Init is over
adjustPollingForDataSaving(interval, cfg) ==
    Min(interval * 3, cfg.maxInterval)

\* applyBackoff: the Retry-After header decides the interval
HonoursRetryAfter(header) ==
    /\ header.present
    /\ header.value # <<>>
    /\ ~Times1000(ParseInt(header.value)).nan

\* mutant of applyBackoff: Retry-After is read, then the backoff is computed
\* all the same
applyBackoff_NoReturn(s, header, u) ==
    [s EXCEPT !.retryCount = @ + 1,
              !.nextInterval = Min(calculateBackoffDelay(s.retryCount + 1, u),
                                   config.maxInterval)]

\* applyBackoff(response?) with the response's Retry-After header, NoHeader
\* when the call passes no response
applyBackoff(s, header, u) ==
    LET rc == s.retryCount + 1
        ms == Times1000(ParseInt(header.value))
    IN  IF HonoursRetryAfter(header)
        THEN [s EXCEPT !.retryCount = rc,
                       !.nextInterval = Min(ms.val, config.maxInterval)]
        ELSE [s EXCEPT !.retryCount = rc,
                       !.nextInterval =
                           Min(calculateBackoffDelay(rc, u), config.maxInterval)]

\* mutant of performPollStart: the offline check is missing
performPollStart_NoOfflineCheck(s, timer) ==
    LET s1 == [s EXCEPT !.timers = @ \ {timer}]
        p  == FreshId(s1.probes)
    IN  [s1 EXCEPT !.probes = @ \cup {p}, !.abortController = p]

\* mutant of performPollStart: the offline skip does not reschedule
performPollStart_NoReschedule(s, timer) ==
    LET s1 == [s EXCEPT !.timers = @ \ {timer},
                        !.settled = [NoOutcome EXCEPT !.kind = "fired"]]
        p  == FreshId(s1.probes)
    IN  IF s1.isOffline
        THEN s1
        ELSE [s1 EXCEPT !.probes = @ \cup {p}, !.abortController = p]

\* performPoll up to its await, run by the poll timer that has just fired
\* (ghost: the turn is recorded as "fired")
performPollStart(s, timer) ==
    LET s1 == [s EXCEPT !.timers = @ \ {timer},
                        !.settled = [NoOutcome EXCEPT !.kind = "fired"]]
        p  == FreshId(s1.probes)
    IN  IF s1.isOffline
        THEN schedulePoll(s1)
        ELSE [s1 EXCEPT !.probes = @ \cup {p}, !.abortController = p]

\* the outcomes of a fetch: a response, or a rejection
Response(status, header) == [kind |-> "response", status |-> status, header |-> header]
Rejection(name) == [kind |-> name, status |-> 0, header |-> NoHeader]

\* ghost: the class of an outcome
OutcomeKind(out) ==
    IF out.kind = "response"
    THEN IF out.status >= 200 /\ out.status <= 299 THEN "ok"
         ELSE IF out.status >= 400 /\ out.status < 500 THEN "client"
         ELSE IF out.status >= 500 THEN "server"
         ELSE "other"
    ELSE IF out.kind = "AbortError" THEN "abort" ELSE "network"

\* mutant of performPollOutcome: a 2xx response resets the interval only
performPollOutcome_KeepsCount(s, out, u) ==
    IF out.kind = "response"
    THEN IF out.status >= 200 /\ out.status <= 299
         THEN [s EXCEPT !.nextInterval = config.baseInterval]
         ELSE IF out.status >= 400 /\ out.status < 500
         THEN [s EXCEPT !.nextInterval = Min(@ * 2, config.maxInterval)]
         ELSE IF out.status >= 500
         THEN applyBackoff(s, out.header, u)
         ELSE s
    ELSE applyBackoff(s, NoHeader, u)

\* mutant of performPollOutcome: a 4xx response is counted as a failure
performPollOutcome_ClientCounts(s, out, u) ==
    IF out.kind = "response"
    THEN IF out.status >= 200 /\ out.status <= 299
         THEN [s EXCEPT !.retryCount = 0, !.nextInterval = config.baseInterval]
         ELSE IF out.status >= 400 /\ out.status < 500
         THEN [s EXCEPT !.retryCount = @ + 1,
                        !.nextInterval = Min(@ * 2, config.maxInterval)]
         ELSE IF out.status >= 500
         THEN applyBackoff(s, out.header, u)
         ELSE s
    ELSE applyBackoff(s, NoHeader, u)

\* the try/catch of performPoll once the fetch has settled with out
performPollOutcome(s, out, u) ==
    IF out.kind = "response"
    THEN IF out.status >= 200 /\ out.status <= 299
         THEN [s EXCEPT !.retryCount = 0, !.nextInterval = config.baseInterval]
         ELSE IF out.status >= 400 /\ out.status < 500
         THEN [s EXCEPT !.nextInterval = Min(@ * 2, config.maxInterval)]
         ELSE IF out.status >= 500
         THEN applyBackoff(s, out.header, u)
         ELSE s
    ELSE applyBackoff(s, NoHeader, u)

\* mutant of performPollSettle: the finally does not schedule the next poll
performPollSettle_NoReschedule(s, p, out, u) ==
    LET s1 == [s EXCEPT !.probes = @ \ {p}]
        s2 == performPollOutcome(s1, out, u)
        s3 == [s2 EXCEPT
                 !.settled = [kind |-> OutcomeKind(out), rc |-> s.retryCount,
                              unj |-> s.lastUnj, header |-> out.header],
                 !.lastUnj = IF out.kind = "response" THEN 0
                             ELSE ExponentialDelay(s2.retryCount)]
    IN  [s3 EXCEPT !.abortController = 0]

\* mutant of performPollSettle: a rejection is handled twice
performPollSettle_Twice(s, p, out, u) ==
    LET s1 == [s EXCEPT !.probes = @ \ {p}]
        s2 == IF out.kind = "response"
              THEN performPollOutcome(s1, out, u)
              ELSE performPollOutcome(performPollOutcome(s1, out, u), out, u)
        s3 == [s2 EXCEPT
                 !.settled = [kind |-> OutcomeKind(out), rc |-> s.retryCount,
                              unj |-> s.lastUnj, header |-> out.header],
                 !.lastUnj = IF out.kind = "response" THEN 0
                             ELSE ExponentialDelay(s2.retryCount)]
    IN  schedulePoll([s3 EXCEPT !.abortController = 0])

\* performPoll from the settlement of probe p to its end: try/catch, finally
performPollSettle(s, p, out, u) ==
    LET s1 == [s EXCEPT !.probes = @ \ {p}]
        s2 == performPollOutcome(s1, out, u)
        s3 == [s2 EXCEPT
                 !.settled = [kind |-> OutcomeKind(out), rc |-> s.retryCount,
                              unj |-> s.lastUnj, header |-> out.header],
                 !.lastUnj = IF out.kind = "response" THEN 0
                             ELSE ExponentialDelay(s2.retryCount)]
    IN  schedulePoll([s3 EXCEPT !.abortController = 0])

\* the microtasks a turn leaves behind: the fetch it aborted rejects with an
\* AbortError and performPoll runs its catch and finally
Drain(s, u) ==
    IF s.aborted = {} THEN s
    ELSE performPollSettle([s EXCEPT !.aborted = {}],
                           CHOOSE p \in s.aborted : TRUE, Rejection("AbortError"), u)

\* mutant of shouldRetryRegistration: the name of the error is not looked at
shouldRetryRegistration_AnyError(errorName) ==
    retryCount < config.maxRetries

shouldRetryRegistration(errorName) ==
    IF errorName \in {"SecurityError", "NotSupportedError"}
    THEN FALSE
    ELSE retryCount < config.maxRetries

----------------------------------------------------------------------------
(* The inline patch script, unnamed/part_007 *)

MAX_RETRIES == 3
PING_INTERVAL_ACTIVE == 60000
PING_INTERVAL_BACKGROUND == 300000
PING_INTERVAL_CAP == 600000
FIRST_PING_DELAY == 1000

\* ghost: no ping outcome was handled
NoPing == [kind |-> "none", header |-> NoHeader]

PatchCur ==
    [ pingTimer |-> pingTimer, abortController |-> pingAbort,
      currentInterval |-> currentInterval, isBackgrounded |-> patchBackgrounded,
      isOffline |-> patchOffline, timers |-> pingTimers, pings |-> pings,
      aborted |-> {},          \* fetches aborted in this turn, not yet settled
      settled |-> NoPing ]     \* ghost: the ping outcome handled in this turn

\* Math.min(currentInterval * 1.5, 600000)
BackoffInterval(interval) ==
    IF 3 * interval >= 2 * PING_INTERVAL_CAP
    THEN PING_INTERVAL_CAP
    ELSE (3 * interval) \div 2

\* pingTimer = setTimeout(poll, delay); the timer is kept by its id alone,
\* its delay decides only when it fires
armPingTimer(s, delay) ==
    LET id == FreshId(s.timers)
    IN  [s EXCEPT !.timers = @ \cup {id}, !.pingTimer = id]

patch_startPolling(s) ==
    IF s.pingTimer # 0 \/ s.isOffline THEN s ELSE armPingTimer(s, FIRST_PING_DELAY)

patch_stopPolling(s) ==
    LET s1 == IF s.pingTimer # 0
              THEN [s EXCEPT !.timers = @ \ {s.pingTimer}, !.pingTimer = 0]
              ELSE s
    IN  IF s1.abortController # 0
        THEN [s1 EXCEPT !.aborted = @ \cup ({s1.abortController} \cap s1.pings),
                        !.abortController = 0]
        ELSE s1

\* the rest of poll() once performPing has returned
pollTail(s) ==
    IF ~s.isOffline THEN armPingTimer(s, s.currentInterval) ELSE s

\* poll() up to the await in performPing, run by the timer that has just fired
pollStart(s, timer) ==
    LET s1 == [s EXCEPT !.timers = @ \ {timer}]
        p  == FreshId(s1.pings)
    IN  IF s1.isOffline
        THEN pollTail(s1)
        ELSE [s1 EXCEPT !.pings = @ \cup {p}, !.abortController = p]

\* the 5xx branch of performPing
performPing5xx(s, header) ==
    LET ms == Times1000(ParseInt(header.value))
    IN  IF header.present /\ header.value # <<>>
        THEN IF ~ms.nan
             THEN [s EXCEPT !.currentInterval = Min(ms.val, PING_INTERVAL_CAP)]
             ELSE s
        ELSE [s EXCEPT !.currentInterval = BackoffInterval(@)]

\* the try/catch of performPing once the fetch has settled with out
performPingOutcome(s, out) ==
    IF out.kind = "response"
    THEN IF ~(out.status >= 200 /\ out.status <= 299)
         THEN IF out.status >= 500
              THEN performPing5xx(s, out.header)
              ELSE IF out.status >= 400 /\ out.status < 500
              THEN [s EXCEPT !.currentInterval = Min(@ * 2, PING_INTERVAL_CAP)]
              ELSE s
         ELSE [s EXCEPT !.currentInterval =
                   IF s.isBackgrounded THEN PING_INTERVAL_BACKGROUND
                   ELSE PING_INTERVAL_ACTIVE]
    ELSE [s EXCEPT !.currentInterval = BackoffInterval(@)]

\* performPing from the settlement of ping p to its end, then the rest of poll()
performPingSettle(s, p, out) ==
    LET s1 == [s EXCEPT !.pings = @ \ {p}]
        s2 == performPingOutcome(s1, out)
        s3 == [s2 EXCEPT
                 !.settled = [kind |-> OutcomeKind(out), header |-> out.header],
                 !.abortController = 0]
    IN  pollTail(s3)

\* the microtasks a turn leaves behind: the aborted fetch rejects
PatchDrain(s) ==
    IF s.aborted = {} THEN s
    ELSE performPingSettle([s EXCEPT !.aborted = {}],
                           CHOOSE p \in s.aborted : TRUE, Rejection("AbortError"))

shouldRetry(errorName) ==
    errorName \notin {"SecurityError", "NotSupportedError"}

----------------------------------------------------------------------------
(* Actions *)

\* the turn ends in manager state r
Commit(r) ==
    /\ Cardinality(r.timers) <= MaxPending
    /\ Cardinality(r.probes) <= MaxPending
    /\ r.retryCount <= MaxRetryCount
    /\ r.nextInterval >= 0 - MaxNegative
    /\ r.telemetry.registration_failed <= MaxFailed
    /\ retryCount' = r.retryCount
    /\ nextInterval' = r.nextInterval
    /\ isOffline' = r.isOffline
    /\ abortController' = r.abortController
    /\ pollTimer' = r.pollTimer
    /\ isBackgrounded' = r.isBackgrounded
    /\ timers' = r.timers
    /\ probes' = r.probes
    /\ telemetry' = r.telemetry
    /\ pre' = r.settled
    /\ lastUnj' = r.lastUnj

\* the inline patch script as it starts: registerServiceWorker() is awaited
PatchInit ==
    /\ patchRetryCount = 0
    /\ pingTimer = 0
    /\ pingAbort = 0
    /\ currentInterval = PING_INTERVAL_ACTIVE
    /\ patchBackgrounded = FALSE
    /\ patchOffline = FALSE
    /\ pingTimers = {}
    /\ pings = {}
    /\ patchPc = "registering"
    /\ patchHidden = FALSE
    /\ patchOnLine = TRUE
    /\ patchStopped = FALSE
    /\ patchPre = NoPing

\* the manager as the constructor leaves it (saveData is read by
\* setupEventListeners), in a page loaded online, in a visible tab, with the
\* battery not low
Constructed ==
    /\ config = MakeConfig(cfgIn)
    /\ onLine = TRUE
    /\ docHidden = FALSE
    /\ batteryLow = FALSE
    /\ retryCount = 0
    /\ nextInterval = IF saveData
                      THEN adjustPollingForDataSaving(config.baseInterval, config)
                      ELSE config.baseInterval
    /\ isOffline = FALSE
    /\ abortController = 0
    /\ pollTimer = 0
    /\ isBackgrounded = FALSE
    /\ timers = {}
    /\ probes = {}
    /\ telemetry = NoTelemetry
    /\ regPc = "none"
    /\ stopped = FALSE
    /\ pre = NoOutcome
    /\ lastUnj = 0

\* initializeTraceViewer has not been called
NotInitialized ==
    /\ initPc = "none"
    /\ failedEvents = 0

\* a manager constructed directly, in a browser that has service workers
Init ==
    /\ PatchInit
    /\ NotInitialized
    /\ protocol = "https:"
    /\ swSupported = TRUE
    /\ cfgIn \in ConfigInputs
    /\ saveData \in BOOLEAN
    /\ Constructed

\* initializeTraceViewer from the settlement of `await swManager.register()`
\* to its end, in the turn that settles it; "rejected" is the catch
ResumeInitialize(result) ==
    /\ initPc' = IF initPc = "awaiting" /\ result = "returned" THEN "handle"
                 ELSE IF initPc = "awaiting" /\ result \in {"null", "rejected"}
                 THEN "null"
                 ELSE initPc
    /\ failedEvents' = IF initPc = "awaiting" /\ result = "rejected"
                       THEN failedEvents + 1
                       ELSE failedEvents
    /\ UNCHANGED protocol

\* ghost: the outcome of a registration attempt
RegistrationOutcome(kind) ==
    [kind |-> kind, rc |-> retryCount, unj |-> lastUnj, header |-> NoHeader]

\* register() is called: it awaits navigator.serviceWorker.register, or
\* returns null at once where there are no service workers
Register ==
    /\ regPc = "none"
    /\ initPc = "none"
    /\ IF swSupported
       THEN /\ regPc' = "registering"
            /\ Commit(Cur)
       ELSE /\ regPc' = "null"
            /\ Commit([logTelemetry(Cur, "registration_unsupported")
                          EXCEPT !.settled = RegistrationOutcome("unsupported")])
    /\ UNCHANGED <<pvars, ivars, fixed, batteryLow, docHidden, saveData, onLine, stopped>>

\* register() after the controller is there: start polling, return
RegisterSucceed(s) ==
    /\ regPc' = "returned"
    /\ IF config.pingEndpoint # ""
       THEN Commit(startPolling(s)) /\ stopped' = FALSE
       ELSE Commit(s) /\ UNCHANGED stopped
    /\ ResumeInitialize(regPc')
    /\ UNCHANGED <<pvars, fixed, batteryLow, docHidden, saveData, onLine>>

\* mutant of RegisterCatch: an error that is not retried is thrown again
RegisterCatch_Rethrows(errorName) ==
    LET s == [logTelemetry(Cur, "registration_failed")
                EXCEPT !.settled = RegistrationOutcome(errorName)]
    IN  /\ IF shouldRetryRegistration(errorName)
           THEN /\ Commit([s EXCEPT !.retryCount = @ + 1])
                /\ regPc' = "delay"
           ELSE /\ Commit(s)
                /\ regPc' = "rejected"
        /\ ResumeInitialize(regPc')
        /\ UNCHANGED <<pvars, fixed, batteryLow, docHidden, saveData, onLine, stopped>>

\* the catch of register(); the ghost keeps the name of the error
RegisterCatch(errorName) ==
    LET s == [logTelemetry(Cur, "registration_failed")
                EXCEPT !.settled = RegistrationOutcome(errorName)]
    IN  /\ IF shouldRetryRegistration(errorName)
           THEN /\ Commit([s EXCEPT !.retryCount = @ + 1])
                /\ regPc' = "delay"
           ELSE /\ Commit(s)
                /\ regPc' = "null"
        /\ ResumeInitialize(regPc')
        /\ UNCHANGED <<pvars, fixed, batteryLow, docHidden, saveData, onLine, stopped>>

\* navigator.serviceWorker.register resolves
RegistrationResolves ==
    /\ regPc = "registering"
    /\ LET s == logTelemetry(Cur, "registration_success")
       IN  \E controller \in BOOLEAN :
              IF controller
              THEN RegisterSucceed(s)
              ELSE /\ regPc' = "waiting"
                   /\ Commit(s)
                   /\ UNCHANGED <<pvars, ivars, fixed, batteryLow, docHidden,
                                  saveData, onLine, stopped>>

\* navigator.serviceWorker.register rejects
RegistrationRejects ==
    /\ regPc = "registering"
    /\ \E errorName \in {"SecurityError", "NotSupportedError", "TypeError"} :
          RegisterCatch(errorName)

\* waitForController: controllerchange
ControllerChange ==
    /\ regPc = "waiting"
    /\ RegisterSucceed(Cur)

\* waitForController: the 10 s timeout rejects
ControllerTimeout ==
    /\ regPc = "waiting"
    /\ RegisterCatch("Error")

\* retryRegistration: the delay is over, register() runs again
RetryDelayOver ==
    /\ regPc = "delay"
    /\ regPc' = "registering"
    /\ Commit(Cur)
    /\ UNCHANGED <<pvars, ivars, fixed, batteryLow, docHidden, saveData, onLine, stopped>>

\* the draws of a turn that may abort a fetch
AbortDraws == IF abortController \in probes THEN RandomDraws ELSE NoDraw

\* the draws of the turn that handles outcome out
OutcomeDraws(out) ==
    IF OutcomeKind(out) \in {"abort", "network"}
       \/ (OutcomeKind(out) = "server" /\ ~HonoursRetryAfter(out.header))
    THEN RandomDraws
    ELSE NoDraw

\* the responses a probe can get
Responses ==
    { Response(status, NoHeader) : status \in Statuses }
    \cup { Response(503, header) : header \in RetryAfterHeaders }

\* stopPolling(), called directly, by unregister() or by cleanupTraceViewer
StopPolling ==
    \E u \in AbortDraws :
        /\ stopped' = TRUE
        /\ Commit(Drain(stopPolling(Cur), u))
        /\ UNCHANGED <<pvars, ivars, fixed, batteryLow, regPc, docHidden, saveData, onLine>>

Online ==
    /\ ~onLine
    /\ onLine' = TRUE
    /\ Commit(resumePolling([Cur EXCEPT !.isOffline = FALSE]))
    /\ stopped' = FALSE
    /\ UNCHANGED <<pvars, ivars, fixed, batteryLow, regPc, docHidden, saveData>>

Offline ==
    /\ onLine
    /\ onLine' = FALSE
    /\ \E u \in AbortDraws :
          Commit(Drain(stopPolling([Cur EXCEPT !.isOffline = TRUE]), u))
    /\ UNCHANGED <<pvars, ivars, fixed, batteryLow, regPc, docHidden, saveData, stopped>>

VisibilityChange ==
    /\ docHidden' = ~docHidden
    /\ LET s == [Cur EXCEPT !.isBackgrounded = docHidden']
       IN  IF s.isBackgrounded
           THEN Commit(adjustPollingForBackground(s)) /\ UNCHANGED stopped
           ELSE Commit(resumePolling(s)) /\ stopped' = FALSE
    /\ UNCHANGED <<pvars, ivars, fixed, batteryLow, regPc, saveData, onLine>>

\* battery levelchange, the level in percent
BatteryLevelChange ==
    /\ \E level \in {10, 50} :
          /\ batteryLow' = (level < 15)
          /\ IF level < 15
             THEN Commit(adjustPollingForLowBattery(Cur))
             ELSE Commit(Cur)
    /\ UNCHANGED <<pvars, ivars, fixed, regPc, docHidden, saveData, onLine, stopped>>

\* a poll timer fires
TimerFires ==
    \E timer \in timers :
        /\ Commit(performPollStart(Cur, timer))
        /\ UNCHANGED <<pvars, ivars, fixed, batteryLow, regPc, docHidden, saveData, onLine, stopped>>

\* the fetch of a probe resolves with a response
ProbeResponds ==
    \E p \in probes, out \in Responses :
      \E u \in OutcomeDraws(out) :
        /\ Commit(performPollSettle(Cur, p, out, u))
        /\ UNCHANGED <<pvars, ivars, fixed, batteryLow, regPc, docHidden, saveData, onLine, stopped>>

\* the fetch of a probe rejects, Math.random() drawn from draws
ProbeFailsWith(draws) ==
    \E p \in probes, u \in draws :
        /\ Commit(performPollSettle(Cur, p, Rejection("TypeError"), u))
        /\ UNCHANGED <<pvars, ivars, fixed, batteryLow, regPc, docHidden, saveData, onLine, stopped>>

\* the fetch of a probe rejects: the network failed
ProbeFails == ProbeFailsWith(RandomDraws)

\* the 5 s timeout of a probe fires: this.abortController?.abort()
ProbeTimeout ==
    \E u \in RandomDraws :
        /\ abortController # 0
        /\ abortController \in probes
        /\ Commit(performPollSettle(Cur, abortController, Rejection("AbortError"), u))
        /\ UNCHANGED <<pvars, ivars, fixed, batteryLow, regPc, docHidden, saveData, onLine, stopped>>

Next ==
    \/ Register
    \/ RegistrationResolves
    \/ RegistrationRejects
    \/ ControllerChange
    \/ ControllerTimeout
    \/ RetryDelayOver
    \/ StopPolling
    \/ Online
    \/ Offline
    \/ VisibilityChange
    \/ BatteryLevelChange
    \/ TimerFires
    \/ ProbeResponds
    \/ ProbeFails
    \/ ProbeTimeout

Spec == Init /\ [][Next]_vars

----------------------------------------------------------------------------
(* Actions of the inline patch script *)

\* the turn ends in script state r
PatchCommit(r) ==
    /\ Cardinality(r.timers) <= MaxPending
    /\ Cardinality(r.pings) <= MaxPending
    /\ r.currentInterval >= 0 - MaxNegative
    /\ pingTimer' = r.pingTimer
    /\ pingAbort' = r.abortController
    /\ currentInterval' = r.currentInterval
    /\ patchBackgrounded' = r.isBackgrounded
    /\ patchOffline' = r.isOffline
    /\ pingTimers' = r.timers
    /\ pings' = r.pings
    /\ patchPre' = r.settled

\* registerServiceWorker() returned: startPolling(), then the cleanup hook
PatchInitialized ==
    /\ patchPc' = "started"
    /\ PatchCommit(patch_startPolling(PatchCur))
    /\ patchStopped' = FALSE
    /\ UNCHANGED <<mvars, ivars, patchRetryCount, patchHidden, patchOnLine>>

\* the catch of registerServiceWorker
PatchRegisterCatch(errorName) ==
    /\ IF patchRetryCount < MAX_RETRIES /\ shouldRetry(errorName)
       THEN patchRetryCount' = patchRetryCount + 1 /\ patchPc' = "delay"
       ELSE UNCHANGED patchRetryCount /\ patchPc' = "failed"
    /\ PatchCommit(PatchCur)
    /\ UNCHANGED <<mvars, ivars, patchHidden, patchOnLine, patchStopped>>

PatchRegistrationResolves ==
    /\ patchPc = "registering"
    /\ \E controller \in BOOLEAN :
          IF controller
          THEN PatchInitialized
          ELSE /\ patchPc' = "waiting"
               /\ PatchCommit(PatchCur)
               /\ UNCHANGED <<mvars, ivars, patchRetryCount, patchHidden, patchOnLine,
                              patchStopped>>

PatchRegistrationRejects ==
    /\ patchPc = "registering"
    /\ \E errorName \in {"SecurityError", "NotSupportedError", "TypeError"} :
          PatchRegisterCatch(errorName)

PatchControllerChange ==
    /\ patchPc = "waiting"
    /\ PatchInitialized

PatchControllerTimeout ==
    /\ patchPc = "waiting"
    /\ PatchRegisterCatch("Error")

PatchRetryDelayOver ==
    /\ patchPc = "delay"
    /\ patchPc' = "registering"
    /\ PatchCommit(PatchCur)
    /\ UNCHANGED <<mvars, ivars, patchRetryCount, patchHidden, patchOnLine, patchStopped>>

\* window.__cleanupServiceWorker(), defined once initServiceWorker is through
PatchCleanup ==
    /\ patchPc \in {"started", "failed"}
    /\ PatchCommit(PatchDrain(patch_stopPolling(PatchCur)))
    /\ patchStopped' = TRUE
    /\ UNCHANGED <<mvars, ivars, patchRetryCount, patchPc, patchHidden, patchOnLine>>

PatchOnline ==
    /\ ~patchOnLine
    /\ patchOnLine' = TRUE
    /\ LET s == [PatchCur EXCEPT !.isOffline = FALSE]
       IN  IF s.pingTimer = 0
           THEN PatchCommit(patch_startPolling(s)) /\ patchStopped' = FALSE
           ELSE PatchCommit(s) /\ UNCHANGED patchStopped
    /\ UNCHANGED <<mvars, ivars, patchRetryCount, patchPc, patchHidden>>

PatchOffline ==
    /\ patchOnLine
    /\ patchOnLine' = FALSE
    /\ PatchCommit(PatchDrain(patch_stopPolling([PatchCur EXCEPT !.isOffline = TRUE])))
    /\ UNCHANGED <<mvars, ivars, patchRetryCount, patchPc, patchHidden, patchStopped>>

PatchVisibilityChange ==
    /\ patchHidden' = ~patchHidden
    /\ LET s == [PatchCur EXCEPT
                    !.isBackgrounded = patchHidden',
                    !.currentInterval = IF patchHidden' THEN PING_INTERVAL_BACKGROUND
                                        ELSE PING_INTERVAL_ACTIVE]
       IN  IF s.isBackgrounded
           THEN /\ PatchCommit(PatchDrain(patch_startPolling(patch_stopPolling(s))))
                /\ patchStopped' = FALSE
           ELSE /\ PatchCommit(s)
                /\ UNCHANGED patchStopped
    /\ UNCHANGED <<mvars, ivars, patchRetryCount, patchPc, patchOnLine>>

PatchTimerFires ==
    \E timer \in pingTimers :
        /\ PatchCommit(pollStart(PatchCur, timer))
        /\ UNCHANGED <<mvars, ivars, patchRetryCount, patchPc, patchHidden, patchOnLine,
                       patchStopped>>

PatchPingResponds ==
    \E p \in pings, out \in Responses :
        /\ PatchCommit(performPingSettle(PatchCur, p, out))
        /\ UNCHANGED <<mvars, ivars, patchRetryCount, patchPc, patchHidden, patchOnLine,
                       patchStopped>>

PatchPingFails ==
    \E p \in pings :
        /\ PatchCommit(performPingSettle(PatchCur, p, Rejection("TypeError")))
        /\ UNCHANGED <<mvars, ivars, patchRetryCount, patchPc, patchHidden, patchOnLine,
                       patchStopped>>

\* the 5 s timeout of a ping fires: abortController?.abort()
PatchPingTimeout ==
    /\ pingAbort # 0
    /\ pingAbort \in pings
    /\ PatchCommit(performPingSettle(PatchCur, pingAbort, Rejection("AbortError")))
    /\ UNCHANGED <<mvars, ivars, patchRetryCount, patchPc, patchHidden, patchOnLine,
                   patchStopped>>

PatchNext ==
    \/ PatchRegistrationResolves
    \/ PatchRegistrationRejects
    \/ PatchControllerChange
    \/ PatchControllerTimeout
    \/ PatchRetryDelayOver
    \/ PatchCleanup
    \/ PatchOnline
    \/ PatchOffline
    \/ PatchVisibilityChange
    \/ PatchTimerFires
    \/ PatchPingResponds
    \/ PatchPingFails
    \/ PatchPingTimeout

\* the script alone: the manager is constructed with the defaults and idle
PatchOnlyInit ==
    /\ Init
    /\ cfgIn.baseInterval = 0
    /\ ~saveData

PatchSpec == PatchOnlyInit /\ [][PatchNext]_vars

----------------------------------------------------------------------------
(* register() with telemetry enabled *)

\* configs that enable telemetry: maxRetries omitted (0), 1, and the 3 of
\* initializeTraceViewer
RegConfigInputs ==
    { [pingEndpoint |-> "", maxRetries |-> 0, baseInterval |-> 0, maxInterval |-> 0,
       enableTelemetry |-> TRUE],
      [pingEndpoint |-> "", maxRetries |-> 1, baseInterval |-> 60000,
       maxInterval |-> 600000, enableTelemetry |-> TRUE],
      [pingEndpoint |-> "", maxRetries |-> 3, baseInterval |-> 60000,
       maxInterval |-> 600000, enableTelemetry |-> TRUE] }

\* a manager constructed directly, with or without service workers in the
\* browser
RegInit ==
    /\ PatchInit
    /\ NotInitialized
    /\ protocol = "https:"
    /\ swSupported \in BOOLEAN
    /\ cfgIn \in RegConfigInputs
    /\ saveData = FALSE
    /\ Constructed

\* register(), the connectivity events and the poller
RegNext ==
    \/ Register
    \/ RegistrationResolves
    \/ RegistrationRejects
    \/ ControllerChange
    \/ ControllerTimeout
    \/ RetryDelayOver
    \/ Online
    \/ Offline
    \/ TimerFires
    \/ ProbeResponds
    \/ ProbeFails
    \/ ProbeTimeout

RegSpec == RegInit /\ [][RegNext]_vars

----------------------------------------------------------------------------
(* calculateBackoffDelay over intervals that are not multiples of 8 ms *)

\* configs with short intervals, in milliseconds, baseInterval <= maxInterval
JitterConfigInputs ==
    { [pingEndpoint |-> "", maxRetries |-> 0, baseInterval |-> i[1],
       maxInterval |-> i[2], enableTelemetry |-> FALSE] :
        i \in { <<15, 250>>, <<15, 3000>>, <<75, 250>>, <<75, 3000>>,
                <<1000, 3000>> } }

\* Math.random() in eighths
JitterDraws == { <<n, 8>> : n \in 0..7 }

JitterInit ==
    /\ PatchInit
    /\ NotInitialized
    /\ protocol = "https:"
    /\ swSupported = TRUE
    /\ cfgIn \in JitterConfigInputs
    /\ saveData = FALSE
    /\ Constructed

\* register() succeeds and every probe fails
JitterNext ==
    \/ Register
    \/ RegistrationResolves
    \/ ControllerChange
    \/ TimerFires
    \/ ProbeFailsWith(JitterDraws)

JitterSpec == JitterInit /\ [][JitterNext]_vars

----------------------------------------------------------------------------
(* initializeTraceViewer, unnamed/part_004 *)

\* the TraceViewerConfig of the caller
TraceViewerConfigs ==
    { [enablePolling |-> e, enableTelemetry |-> FALSE] : e \in BOOLEAN }

\* the ServiceWorkerConfig initializeTraceViewer constructs the manager with
ManagerConfig(tv) ==
    [ pingEndpoint |-> IF tv.enablePolling THEN "/ping" ELSE "",
      maxRetries |-> 3, baseInterval |-> 60000, maxInterval |-> 600000,
      enableTelemetry |-> tv.enableTelemetry ]

\* before the call; the manager's variables hold what its constructor will
\* leave, and nothing touches them until it has run
InitInit ==
    /\ PatchInit
    /\ NotInitialized
    /\ protocol \in {"file:", "https:"}
    /\ swSupported \in BOOLEAN
    /\ cfgIn \in { ManagerConfig(tv) : tv \in TraceViewerConfigs }
    /\ saveData = FALSE
    /\ Constructed

\* initializeTraceViewer up to its first await (isUnderTest is not set): it
\* returns null, throws, or constructs the manager and awaits register(),
\* which has run up to its own await
InitializeTraceViewer ==
    /\ initPc = "none"
    /\ regPc = "none"
    /\ IF protocol = "file:"
       THEN initPc' = "null" /\ UNCHANGED regPc
       ELSE IF ~swSupported
       THEN initPc' = "threw" /\ UNCHANGED regPc
       ELSE initPc' = "awaiting" /\ regPc' = "registering"
    /\ Commit(Cur)
    /\ UNCHANGED <<pvars, fixed, protocol, failedEvents, batteryLow, docHidden,
                   saveData, onLine, stopped>>

\* the manager exists once initializeTraceViewer has constructed it
InitNext ==
    \/ InitializeTraceViewer
    \/ regPc # "none" /\ RegistrationResolves
    \/ regPc # "none" /\ RegistrationRejects
    \/ regPc # "none" /\ ControllerChange
    \/ regPc # "none" /\ ControllerTimeout
    \/ regPc # "none" /\ RetryDelayOver
    \/ regPc # "none" /\ Online
    \/ regPc # "none" /\ Offline
    \/ regPc # "none" /\ TimerFires
    \/ regPc # "none" /\ ProbeResponds
    \/ regPc # "none" /\ ProbeFails
    \/ regPc # "none" /\ ProbeTimeout

InitSpec == InitInit /\ [][InitNext]_vars

----------------------------------------------------------------------------
(* The polling cycle under the scheduling of the event loop *)

\* polling enabled, intervals of 30 s to 2 min
CycleInit ==
    /\ PatchInit
    /\ NotInitialized
    /\ protocol = "https:"
    /\ swSupported = TRUE
    /\ cfgIn = [ pingEndpoint |-> "/ping", maxRetries |-> 5, baseInterval |-> 30000,
                 maxInterval |-> 120000, enableTelemetry |-> FALSE ]
    /\ saveData = FALSE
    /\ Constructed

\* the settlement of the fetch of a probe: a response, a rejection, or the
\* abort of its 5 s timeout
ProbeSettles == ProbeResponds \/ ProbeFails \/ ProbeTimeout

\* a successful register(), the poller, and the events that stop and resume it
CycleNext ==
    \/ Register
    \/ RegistrationResolves
    \/ ControllerChange
    \/ StopPolling
    \/ Online
    \/ Offline
    \/ VisibilityChange
    \/ TimerFires
    \/ ProbeResponds
    \/ ProbeFails
    \/ ProbeTimeout

\* a pending setTimeout fires and a pending fetch settles (at the latest by
\* the 5 s timeout that aborts it)
CycleSpec ==
    /\ CycleInit
    /\ [][CycleNext]_vars
    /\ WF_vars(TimerFires)
    /\ WF_vars(ProbeSettles)

----------------------------------------------------------------------------
(* The steps that are browser events *)

OnlineEvent == ~onLine /\ onLine'
OfflineEvent == onLine /\ ~onLine'
VisibleEvent == docHidden /\ ~docHidden'
HiddenEvent == ~docHidden /\ docHidden'

\* no poll timer is pending and no fetch is in flight
Idle == timers = {} /\ probes = {}

----------------------------------------------------------------------------
(* Claims *)

\* C1: in every reachable state baseInterval <= nextInterval <= maxInterval.
\* Refuted by the code: a 5xx response with Retry-After: 0 sets nextInterval
\* to 0.
C1_IntervalInRange ==
    config.baseInterval <= nextInterval /\ nextInterval <= config.maxInterval

\* C2: at most one poll timer is pending and at most one probe is in flight
\* at any instant (so no probe is created while another is live).
C2_OneTimerOneProbe ==
    Cardinality(timers) <= 1 /\ Cardinality(probes) <= 1

\* C2 witness: register() reaches startPolling while a probe is in flight and
\* this.pollTimer still holds the id of the timer that fired.
C2_Witness ==
    /\ regPc = "returned"
    /\ Cardinality(probes) = 1
    /\ pollTimer # 0
    /\ timers = {}

\* C3: after stopPolling() in any poller state, and as long as nothing starts
\* or resumes polling, no poll timer is armed and no request is in flight.
\* Refuted by the code: the finally of performPoll re-arms the timer when
\* stopPolling() aborts the fetch.
C3_StopLeavesIdle == stopped => Idle

\* C4: after stopPolling() has left the poller idle, an online event or a
\* visibility change to visible does not arm a timer or issue a request.
\* Refuted by the code: both events call resumePolling().
C4_SignalsDoNotRestart ==
    [][(regPc = "returned" /\ stopped /\ Idle /\ (OnlineEvent \/ VisibleEvent))
          => Idle']_vars

\* C5: an offline event clears the pending poll timer, and from the event
\* until the online event no probe is issued, whether the event found a timer
\* pending or a probe in flight.
C5_OfflinePauses ==
    [][/\ OfflineEvent => (timers' \cap timers = {} /\ isOffline')
       /\ (isOffline \/ isOffline') => probes' \subseteq probes]_vars

\* C5 witness: the offline event found a probe in flight and aborted it; the
\* timer chain goes on, without requests.
C5_Witness ==
    /\ isOffline
    /\ pre.kind = "abort"
    /\ probes = {}
    /\ Cardinality(timers) = 1

\* C6: an online event after an offline event clears the offline flag, arms
\* a timer and leaves nextInterval = baseInterval, whatever the poller was
\* doing when it went offline.
\* Refuted by the code: resumePolling() resets nothing when this.pollTimer is
\* set, as it is after an offline event that found a probe in flight.
C6_OnlineResets ==
    [][(isOffline /\ OnlineEvent)
          => (~isOffline' /\ timers' # {}
              /\ nextInterval' = config.baseInterval)]_vars

\* C7: a 2xx response sets retryCount to 0 and nextInterval to baseInterval,
\* and the timer armed in the same turn is computed from that interval.
C7_SuccessResets ==
    pre.kind = "ok" =>
        /\ retryCount = 0
        /\ nextInterval = config.baseInterval
        /\ \A t \in timers : t.delay = calculatePollInterval(Cur)

\* C7 witness: a 2xx response after two or more counted failures.
C7_Witness ==
    pre.kind = "ok" /\ pre.rc >= 2 /\ timers # {}

\* a transport failure: the fetch rejected (network error, timeout or abort)
TransportFailure == pre.kind \in {"network", "abort"}

\* C8: a transport failure increments retryCount by exactly one and computes
\* the unjittered backoff min(baseInterval * 2^retryCount, maxInterval); in a
\* run of consecutive transport failures that value strictly increases until
\* it is maxInterval and then stays there.  With 30000/300000 the failures
\* that find retryCount at 0, 1 and 2 compute 60000, 120000 and 240000.
C8_BackoffGrows ==
    TransportFailure =>
        /\ retryCount = pre.rc + 1
        /\ lastUnj = Min(config.baseInterval * (2 ^ retryCount), config.maxInterval)
        /\ pre.unj # 0 =>
              /\ pre.unj < config.maxInterval => lastUnj > pre.unj
              /\ pre.unj = config.maxInterval => lastUnj = config.maxInterval
        /\ (config.baseInterval = 30000 /\ config.maxInterval = 300000) =>
              /\ pre.rc = 0 => lastUnj = 60000
              /\ pre.rc = 1 => lastUnj = 120000
              /\ pre.rc = 2 => lastUnj = 240000

\* C8 witness: the third of three consecutive transport failures that began
\* at retryCount 0, with 30000/300000.
C8_Witness ==
    /\ TransportFailure
    /\ config.baseInterval = 30000
    /\ pre.rc = 2
    /\ pre.unj = 120000
    /\ lastUnj = 240000

\* a Retry-After value that is a non-negative integer: digits only
IsNonNegativeInteger(str) ==
    str # <<>> /\ \A i \in 1..Len(str) : IsDigit(str[i])

\* C9: a 5xx response whose Retry-After is a non-negative integer s sets
\* nextInterval to exactly min(s * 1000, maxInterval): no exponential
\* formula, no jitter.  Retry-After: 60 gives min(60000, maxInterval).
C9_RetryAfterExact ==
    (pre.kind = "server" /\ pre.header.present
       /\ IsNonNegativeInteger(pre.header.value)) =>
        /\ nextInterval =
              Min(DigitPrefix(pre.header.value, 0) * 1000, config.maxInterval)
        /\ pre.header.value = <<"6", "0">> =>
              nextInterval = Min(60000, config.maxInterval)

\* C9 witness: 503 with Retry-After: 60 after an earlier failure, so that the
\* exponential formula would give 105000 or more.
C9_Witness ==
    /\ pre.kind = "server"
    /\ pre.header = Header(<<"6", "0">>)
    /\ config.baseInterval = 30000
    /\ pre.rc >= 1
    /\ nextInterval = 60000

\* the intervals the exponential path can store at the current retryCount
ExponentialIntervals ==
    { Min(calculateBackoffDelay(retryCount, u), config.maxInterval) :
        u \in RandomDraws }

\* C10: a 5xx response whose Retry-After is missing, or is not a
\* non-negative integer, gets the interval of the exponential backoff path.
\* Refuted by the code: parseInt accepts a negative value, and Retry-After: -1
\* sets nextInterval to -1000.
C10_InvalidRetryAfterIgnored ==
    (pre.kind = "server"
       /\ (~pre.header.present \/ ~IsNonNegativeInteger(pre.header.value))) =>
        nextInterval \in ExponentialIntervals

\* the delay schedulePoll would arm a timer with in the current state
EffectiveDelay == calculatePollInterval(Cur)

\* C11: when the tab becomes hidden while nextInterval = 30000 (data saving
\* off), the delay the next poll timer is armed with is min(4 * 30000,
\* maxInterval) = 120000: the background factor is applied once.
\* Refuted by the code: adjustPollingForBackground() stores 4 * nextInterval
\* and calculatePollInterval() multiplies the stored value by 4 again.
C11_BackgroundOnce ==
    [][(HiddenEvent /\ nextInterval = 30000 /\ ~saveData)
          => EffectiveDelay' = Min(4 * 30000, config.maxInterval)]_vars

\* the error names the specification classifies as permanent
PermanentErrors == {"SecurityError", "NotSupportedError"}

\* the names of the other errors a registration attempt fails with
TransientErrors == {"TypeError", "Error"}

\* C12: a registration attempt that fails with SecurityError or
\* NotSupportedError makes register() return null in that turn, with no
\* retry scheduled (retryCount as it was), records exactly one
\* registration_failed event, and no attempt follows the return of null: a
\* first attempt that fails so is the only one.
C12_PermanentNoRetry ==
    [][/\ pre'.kind \in PermanentErrors =>
            /\ regPc' = "null"
            /\ retryCount' = retryCount
            /\ telemetry' = [telemetry EXCEPT !.registration_failed = @ + 1]
       /\ regPc = "null" => regPc' = "null"]_vars

\* C12 witness: the first attempt failed with SecurityError; register() has
\* returned null with one registration_failed on record.
C12_Witness ==
    /\ pre.kind = "SecurityError"
    /\ regPc = "null"
    /\ retryCount = 0
    /\ telemetry.registration_failed = 1
    /\ telemetry.registration_success = 0

\* C13: with the maxRetries of the config handed in (0 included), register()
\* schedules a retry only while fewer than maxRetries have been made, and
\* when it gives up after a transient error it has made exactly
\* maxRetries + 1 attempts, whatever events and poll outcomes interleave.
\* With telemetry enabled the failed attempts are the registration_failed
\* count.
\* Refuted by the code: the constructor replaces maxRetries 0 by 5, and the
\* retry test reads retryCount, which poll outcomes reset and increment.
C13_ExactlyMaxRetries ==
    /\ regPc = "delay" => telemetry.registration_failed <= cfgIn.maxRetries
    /\ (regPc = "null" /\ pre.kind \in TransientErrors) =>
           telemetry.registration_failed = cfgIn.maxRetries + 1

\* C14: register() never rejects: it is in progress, or it has returned a
\* registration or null.
C14_NeverRejects ==
    regPc \in {"none", "registering", "waiting", "delay", "returned", "null"}

\* C14 witness: the activation timeout used up the last retry and register()
\* returned null.
C14_Witness ==
    /\ regPc = "null"
    /\ pre.kind = "Error"
    /\ telemetry.registration_failed >= 2

\* C15: under a file: origin, and where the browser has no service workers,
\* initializeTraceViewer returns null without throwing and without a
\* registration attempt.
\* Refuted by the code: without service workers (and not under file:) it
\* throws before its try block.
C15_SkipsQuietly ==
    (initPc # "none" /\ (protocol = "file:" \/ ~swSupported)) =>
        (initPc = "null" /\ regPc = "none")

\* C16: when register() has given up (a permanent error, or the retries used
\* up), initializeTraceViewer has returned null and dispatched exactly one
\* sw-registration-failed event.
\* Refuted by the code: register() returns null instead of throwing, so the
\* catch that calls notifyUserOfServiceWorkerFailure never runs.
C16_FailureSurfacedOnce ==
    (initPc \notin {"none", "awaiting"} /\ regPc = "null") =>
        (initPc = "null" /\ failedEvents = 1)

\* C17: with no pingEndpoint in the config handed to the constructor, no
\* poll timer is ever armed and no health-check request is ever issued.
\* Refuted by the code: the constructor replaces a missing pingEndpoint by
\* '/ping', so register() and resumePolling() always find one.
C17_NoEndpointNoPolling ==
    cfgIn.pingEndpoint = "" => (timers = {} /\ probes = {} /\ pollTimer = 0)

\* C18 as stated: after a transport failure the stored interval lies within
\* [0.875 x, 1.125 x] of the unjittered value x, and is at most
\* maxInterval.
\* Refuted: calculateBackoffDelay rounds to a whole millisecond, and
\* Math.round(0.875 * 30) = 26 lies below 26.25.
C18_JitterInRange ==
    TransportFailure =>
        /\ 7 * lastUnj <= 8 * nextInterval
        /\ 8 * nextInterval <= 9 * lastUnj
        /\ nextInterval <= config.maxInterval

\* C18, amended: after a transport failure the stored interval lies within
\* half a millisecond of [0.875 x, 1.125 x], x the unjittered value (and
\* within it when x is a multiple of 8), and is at most maxInterval.
C18_JitterInRangeRounded ==
    TransportFailure =>
        /\ 7 * lastUnj - 4 <= 8 * nextInterval
        /\ 8 * nextInterval <= 9 * lastUnj + 4
        /\ lastUnj % 8 = 0 =>
              (7 * lastUnj <= 8 * nextInterval /\ 8 * nextInterval <= 9 * lastUnj)
        /\ nextInterval <= config.maxInterval

\* C18 witness: the first failure with baseInterval 15 and the draw 0 stores
\* Math.round(26.25) = 26 for the unjittered 30.
C18_Witness ==
    /\ TransportFailure
    /\ lastUnj = 30
    /\ nextInterval = 26

\* C19: the turn that handles a 4xx response leaves retryCount as it was
\* and sets nextInterval to min(2 * nextInterval, maxInterval).
C19_ClientErrorDoubles ==
    [][pre'.kind = "client"
          => /\ retryCount' = retryCount
             /\ nextInterval' = Min(2 * nextInterval, config.maxInterval)]_vars

\* C19 witness: a 4xx response that found retryCount at 2 and doubled the
\* base interval.
C19_Witness ==
    /\ pre.kind = "client"
    /\ retryCount = 2
    /\ nextInterval = 2 * config.baseInterval

\* C20: a timer armed while the battery is below 15% has a delay that holds
\* the low-battery factor 2 on top of nextInterval; in particular the timer
\* armed by the turn of a 2xx response (nextInterval = baseInterval), in the
\* foreground and without data saving, has the delay min(2 * baseInterval,
\* maxInterval).
\* Refuted by the code: calculatePollInterval() has no battery factor; the
\* levelchange listener doubles the stored nextInterval at every event below
\* 15%, and a 2xx response resets it to baseInterval.
C20_LowBatteryFactor ==
    (batteryLow /\ pre.kind = "ok" /\ ~isBackgrounded /\ ~saveData) =>
        \A t \in timers :
            t.delay = Min(2 * config.baseInterval, config.maxInterval)

\* C21: whatever combination of backgrounded, low-battery and data-saving
\* signals is active, every poll timer is armed with a delay of at most
\* maxInterval.
C21_DelayCapped ==
    \A t \in timers : t.delay <= config.maxInterval

\* a timer armed at the cap by the turn of a 4xx response, with all three
\* signals active and a stored interval below the cap
C21_Witness ==
    /\ pre.kind = "client"
    /\ isBackgrounded /\ saveData /\ batteryLow
    /\ nextInterval < config.maxInterval
    /\ \E t \in timers : t.delay = config.maxInterval

\* C22: when a poll timer fires while the offline flag is set, no request is
\* issued, the fired timer is replaced by exactly one new timer armed with
\* the current effective interval, and retryCount, nextInterval and the
\* offline flag are left unchanged.
C22_OfflineSkip ==
    [][(pre'.kind = "fired" /\ isOffline) =>
           /\ probes' = probes
           /\ abortController' = abortController
           /\ retryCount' = retryCount
           /\ nextInterval' = nextInterval
           /\ isOffline' = isOffline
           /\ \E t \in timers, n \in timers' :
                 /\ n.delay = EffectiveDelay
                 /\ n.id = pollTimer'
                 /\ n.id \notin {o.id : o \in timers \ {t}}
                 /\ timers' = (timers \ {t}) \cup {n}]_vars

\* the state a timer that fired offline leaves behind
C22_Witness ==
    /\ pre.kind = "fired"
    /\ isOffline
    /\ probes = {}
    /\ Cardinality(timers) = 1

\* C23: a controller that does not attach within the 10 s timeout makes the
\* attempt a transient failure: the turn of the timeout starts no polling
\* and leaves register() either waiting for a retry or, only once the
\* maxRetries of the config are used up (maxRetries + 1 failed attempts,
\* the registration_failed count), returned with null.
\* Refuted by the code through the retry test of C13, which reads the
\* retryCount the poller writes too.
C23_TimeoutIsTransient ==
    [][pre'.kind = "Error" =>
           /\ timers' = timers
           /\ probes' = probes
           /\ regPc' \in {"delay", "null"}
           /\ regPc' = "null" =>
                  telemetry'.registration_failed >= cfgIn.maxRetries + 1]_vars

\* C24: when registration succeeds on the first attempt, register() returns
\* the registration with registration_success recorded once, no
\* registration_failed, retryCount 0, and polling started: exactly one timer
\* armed and no probe in flight.
\* Refuted by the code through C28: an online event before the registration
\* resolves starts polling early, so a probe may have failed or be in flight
\* when register() returns.
C24_FirstAttemptSuccess ==
    [][(regPc # "returned" /\ regPc' = "returned"
        /\ telemetry'.registration_failed = 0) =>
           /\ telemetry'.registration_success = 1
           /\ retryCount' = 0
           /\ Cardinality(timers') = 1
           /\ probes' = {}
           /\ pollTimer' \in {t.id : t \in timers'}]_vars

\* the kinds of outcome a probe can end with
ProbeOutcomes == {"ok", "client", "server", "other", "abort", "network"}

\* C25: every probe ends in exactly one turn, which updates the retry state
\* once and runs the cleanup once: a turn removes a probe only by handling
\* its outcome, it handles one probe, clears abortController and arms one
\* timer; an aborted or failed probe raises retryCount by exactly one, and
\* nextInterval is the one backoff computed from that count.
C25_SettlesOnce ==
    [][/\ probes # probes' /\ ~(probes \subseteq probes') => pre'.kind \in ProbeOutcomes
       /\ pre'.kind \in ProbeOutcomes =>
              /\ Cardinality(probes \ probes') = 1
              /\ probes' \subseteq probes
              /\ abortController' = 0
              /\ Cardinality(timers') = 1
              /\ pollTimer' \in {t.id : t \in timers'}
       /\ pre'.kind \in {"abort", "network"} =>
              /\ retryCount' = retryCount + 1
              /\ \E u \in RandomDraws :
                    nextInterval' =
                        Min(calculateBackoffDelay(retryCount + 1, u), config.maxInterval)]_vars

\* a probe aborted by stopPolling(): retryCount went up by one
C25_Witness ==
    /\ pre.kind = "abort"
    /\ stopped
    /\ retryCount = pre.rc + 1
    /\ probes = {}

\* C26: under CycleSpec (timers fire, fetches settle) the polling cycle is
\* perpetual: every probe in flight settles, and its settlement leaves the
\* next timer armed; every timer armed while polling is neither stopped nor
\* offline leads to the next probe, unless polling is stopped or goes
\* offline first.
C26_CyclePerpetual ==
    /\ (probes # {}) ~> (probes = {} /\ timers # {})
    /\ (timers # {} /\ ~stopped /\ ~isOffline) ~> (probes # {} \/ stopped \/ isOffline)

\* a probe in flight that follows a probe that failed
C26_Witness ==
    /\ probes # {}
    /\ lastUnj > 0
    /\ retryCount >= 1
    /\ ~stopped /\ ~isOffline

\* C27: in the inline script, at most one ping timer is pending and at most
\* one ping is in flight in every reachable state.
\* Refuted by the code: hiding the tab while a ping is in flight arms a timer
\* in startPolling(), and poll() arms a second one after the aborted ping.
C27_OnePingTimerOnePing ==
    /\ Cardinality(pingTimers) <= 1
    /\ Cardinality(pings) <= 1

\* C28: a poll timer is pending or a probe is in flight only after a
\* register() call has returned a registration.
\* Refuted by the code: the online and visibilitychange listeners call
\* resumePolling() whatever register() has done.
C28_NoPollingBeforeRegistered ==
    (timers # {} \/ probes # {}) => regPc = "returned"

\* C29: when register() returns a registration, after any number of retries,
\* retryCount is 0 as polling starts.
\* Refuted by the code: register() leaves the retryCount of its retries in
\* place.
C29_RetriesDoNotLeak ==
    [][(regPc # "returned" /\ regPc' = "returned") => retryCount' = 0]_vars

\* C30: in the inline script, once __cleanupServiceWorker() has run and until
\* startPolling is invoked again, no ping timer is pending and no ping is in
\* flight.
\* Refuted by the code: poll() arms the next timer after the ping that
\* stopPolling() aborted.
C30_CleanupStops ==
    patchStopped => (pingTimers = {} /\ pings = {} /\ pingTimer = 0)

====
